---- MODULE Spec2Model ----
(***************************************************************************)
(* Clock reduction of the Reveaal timed transition-system engine.          *)
(*                                                                         *)
(* A federation is held by its minimal constraints: a record               *)
(* [dim, conjs] where conjs is a sequence of conjunctions and a            *)
(* conjunction is a sequence of constraints [i, j, b] standing for         *)
(* x_i - x_j <= b.  The federation with no conjunction is the empty        *)
(* federation; the federation whose only conjunction has no constraint is  *)
(* the universe.  Only non-strict bounds are modelled.                     *)
(***************************************************************************)
EXTENDS Integers, Sequences, FiniteSets, TLC

VARIABLES lhs, rhs, dim, quotient_clock, pc, orig, applied, graph, redundant, sim

vars == <<lhs, rhs, dim, quotient_clock, pc, orig, applied, graph, redundant, sim>>

(***************************************************************************)
(* Bounds of the model                                                     *)
(***************************************************************************)
\* number of real clocks of a system
NumClocks == 3
\* number of clocks of a two-operand system that the left operand declares
SplitAt == 2
\* largest clock value followed by the concrete semantics
MaxVal == 2

Clocks == 1..NumClocks
GlobalDim == NumClocks + 1
ClockNames == <<"x", "y", "z", "w", "u", "v">>
LocIds == {"L0", "L1"}
ActionSeq == <<"a", "b">>

(***************************************************************************)
(* Helpers on sequences and sets                                           *)
(***************************************************************************)
Range(s) == {s[k] : k \in DOMAIN s}

Min(S) == CHOOSE m \in S : \A n \in S : m <= n

RECURSIVE SetToSortedSeq(_)
SetToSortedSeq(S) ==
    IF S = {} THEN <<>> ELSE <<Min(S)>> \o SetToSortedSeq(S \ {Min(S)})

RECURSIVE Flatten(_)
Flatten(ss) == IF ss = <<>> THEN <<>> ELSE Head(ss) \o Flatten(Tail(ss))

\* all orders in which the elements of S can be visited
Perms(S) ==
    {p \in [1..Cardinality(S) -> S] : \A a \in S : \E k \in DOMAIN p : p[k] = a}

None == [some |-> FALSE]
Some(v) == [some |-> TRUE, val |-> v]

(***************************************************************************)
(* Federations and the per-constraint clock removal (clock_removal.rs)     *)
(***************************************************************************)
Constraint(i, j, b) == [i |-> i, j |-> j, b |-> b]

Universe(d) == [dim |-> d, conjs |-> << <<>> >>]

minimal_constraints(fed) == fed.conjs

from_disjunction(disj, d) == [dim |-> d, conjs |-> disj]

is_empty(fed) == fed.conjs = <<>>

\* a variant that leaves the indices above the removed clock where they are
create_constraint_unshifted(i, j, b, clock_index) == Constraint(i, j, b)

create_constraint(i, j, b, clock_index) ==
    Constraint(IF i > clock_index THEN i - 1 ELSE i,
               IF j > clock_index THEN j - 1 ELSE j,
               b)

\* Option<Constraint> as a sequence of no or one constraint
remove_or_replace_constraint(c, remove_clock, replacing_clock) ==
    IF ~replacing_clock.some
    THEN IF c.i = remove_clock \/ c.j = remove_clock
         THEN <<>>
         ELSE <<create_constraint(c.i, c.j, c.b, remove_clock)>>
    ELSE IF c.i = remove_clock
         THEN IF c.j = replacing_clock.val
              THEN <<>>
              ELSE <<create_constraint(replacing_clock.val, c.j, c.b, remove_clock)>>
         ELSE IF c.j = remove_clock
              THEN IF c.i = replacing_clock.val
                   THEN <<>>
                   ELSE <<create_constraint(c.i, replacing_clock.val, c.b, remove_clock)>>
              ELSE <<create_constraint(c.i, c.j, c.b, remove_clock)>>

\* Iterator::position: index of the first constraint on (i, j), 0 for None
position(cs, i, j) ==
    IF \E k \in DOMAIN cs : cs[k].i = i /\ cs[k].j = j
    THEN Min({k \in DOMAIN cs : cs[k].i = i /\ cs[k].j = j})
    ELSE 0

\* Vec::swap_remove: the last element takes the place of the removed one
swap_remove(cs, k) ==
    IF k = Len(cs)
    THEN SubSeq(cs, 1, Len(cs) - 1)
    ELSE [SubSeq(cs, 1, Len(cs) - 1) EXCEPT ![k] = cs[Len(cs)]]

\* body of the loop of rebuild_conjunction for one rewritten constraint
keep_constraint(new_constraints, c) ==
    LET k == position(new_constraints, c.i, c.j) IN
    IF k = 0
    THEN Append(new_constraints, c)
    ELSE IF new_constraints[k].b < c.b
         THEN LET r == position(new_constraints, c.j, c.i) IN
              IF r = 0
              THEN Append(swap_remove(new_constraints, k), c)
              ELSE IF -new_constraints[r].b > -c.b
                   THEN Append(swap_remove(new_constraints, k), c)
                   ELSE new_constraints
         ELSE new_constraints

RECURSIVE rebuild_loop(_, _, _, _)
rebuild_loop(conj, new_constraints, remove_clock, replacing_clock) ==
    IF conj = <<>>
    THEN new_constraints
    ELSE LET rc == remove_or_replace_constraint(Head(conj), remove_clock, replacing_clock)
         IN rebuild_loop(Tail(conj),
                         IF rc = <<>> THEN new_constraints
                                      ELSE keep_constraint(new_constraints, rc[1]),
                         remove_clock, replacing_clock)

\* Option<Conjunction> as a sequence of no or one conjunction
rebuild_conjunction(conj, remove_clock, replacing_clock) ==
    LET new_constraints == rebuild_loop(conj, <<>>, remove_clock, replacing_clock)
    IN IF Len(new_constraints) = 0 THEN <<>> ELSE <<new_constraints>>

remove_clock_from_federation(fed, remove_clock, replacing_clock) ==
    LET old_disjunction == minimal_constraints(fed)
        new_disjunction ==
            Flatten([k \in DOMAIN old_disjunction |->
                        rebuild_conjunction(old_disjunction[k], remove_clock, replacing_clock)])
    IN from_disjunction(new_disjunction, fed.dim - 1)

\* the constraints of a federation all name clocks of its dimension
fed_in_range(fed) ==
    \A k \in DOMAIN fed.conjs : \A n \in DOMAIN fed.conjs[k] :
        /\ fed.conjs[k][n].i \in 0..(fed.dim - 1)
        /\ fed.conjs[k][n].j \in 0..(fed.dim - 1)

fed_clocks(fed) ==
    UNION {UNION {{fed.conjs[k][n].i, fed.conjs[k][n].j} : n \in DOMAIN fed.conjs[k]} :
              k \in DOMAIN fed.conjs}

(***************************************************************************)
(* Declarations (declarations.rs): clock name -> clock index               *)
(***************************************************************************)
\* slice::partition_point with the predicate "element < x": a binary search
RECURSIVE partition_search(_, _, _, _)
partition_search(cs, x, left, right) ==
    IF left >= right
    THEN left
    ELSE LET mid == left + ((right - left) \div 2) IN
         IF cs[mid + 1] < x
         THEN partition_search(cs, x, mid + 1, right)
         ELSE partition_search(cs, x, left, mid)

partition_point(cs, x) == partition_search(cs, x, 0, Len(cs))

\* a variant that deletes the names and leaves the surviving indices alone
decl_remove_clocks_in_place(clocks, clocks_to_be_removed) ==
    [name \in {n \in DOMAIN clocks : clocks[n] \notin Range(clocks_to_be_removed)} |->
        clocks[name]]

decl_remove_clocks(clocks, clocks_to_be_removed) ==
    [name \in {n \in DOMAIN clocks : clocks[n] \notin Range(clocks_to_be_removed)} |->
        clocks[name] - partition_point(clocks_to_be_removed, clocks[name])]

\* a variant that forgets the names of the replaced clocks
decl_replace_clocks_forgetting(clocks, m) ==
    [name \in {n \in DOMAIN clocks : clocks[n] \notin DOMAIN m} |-> clocks[name]]

\* the map is a function old index -> new index
decl_replace_clocks(clocks, m) ==
    [name \in DOMAIN clocks |->
        IF clocks[name] \in DOMAIN m THEN m[clocks[name]] ELSE clocks[name]]

(***************************************************************************)
(* CompiledComponent (compiled_component.rs)                               *)
(***************************************************************************)
LocationTree(id, invariant) == [id |-> id, invariant |-> invariant]

Update(clock_index, value) == [clock_index |-> clock_index, value |-> value]

Transition(action, guard_zone, updates, target) ==
    [action |-> action, guard_zone |-> guard_zone, updates |-> updates,
     target_locations |-> target]

get_dim(ts) == ts.dim

RECURSIVE remove_many(_, _)
remove_many(fed, clocks) ==
    IF clocks = <<>>
    THEN fed
    ELSE remove_many(remove_clock_from_federation(fed, Head(clocks), None), Tail(clocks))

\* order: the keys of the map in the order the HashMap yields them
RECURSIVE replace_many(_, _, _)
replace_many(fed, m, order) ==
    IF order = <<>>
    THEN fed
    ELSE replace_many(remove_clock_from_federation(fed, Head(order), Some(m[Head(order)])),
                      m, Tail(order))

is_update_kept(u, clocks) == u.clock_index \notin Range(clocks)

remove_clocks(leaf, clocks) ==
    [leaf EXCEPT
        !.declarations = decl_remove_clocks(leaf.declarations, clocks),
        !.locations =
            [id \in DOMAIN leaf.locations |->
                IF leaf.locations[id].invariant.some
                THEN LocationTree(id, Some(remove_many(leaf.locations[id].invariant.val, clocks)))
                ELSE leaf.locations[id]],
        !.location_edges =
            [id \in DOMAIN leaf.location_edges |->
                [k \in DOMAIN leaf.location_edges[id] |->
                    LET t == leaf.location_edges[id][k] IN
                    [t EXCEPT !.guard_zone = remove_many(t.guard_zone, clocks),
                              !.updates = SelectSeq(t.updates,
                                                    LAMBDA u : is_update_kept(u, clocks))]]],
        !.dim = leaf.dim - Len(clocks)]

replace_update(u, m) ==
    IF u.clock_index \in DOMAIN m
    THEN Update(m[u.clock_index], u.value)
    ELSE Update(u.clock_index, u.value)

replace_clocks(leaf, m, order) ==
    [leaf EXCEPT
        !.declarations = decl_replace_clocks(leaf.declarations, m),
        !.locations =
            [id \in DOMAIN leaf.locations |->
                IF leaf.locations[id].invariant.some
                THEN LocationTree(id, Some(replace_many(leaf.locations[id].invariant.val, m, order)))
                ELSE leaf.locations[id]],
        !.location_edges =
            [id \in DOMAIN leaf.location_edges |->
                [k \in DOMAIN leaf.location_edges[id] |->
                    LET t == leaf.location_edges[id][k] IN
                    [t EXCEPT !.guard_zone = replace_many(t.guard_zone, m, order),
                              !.updates = [n \in DOMAIN t.updates |->
                                              replace_update(t.updates[n], m)]]]],
        !.dim = leaf.dim - Cardinality(DOMAIN m)]

(***************************************************************************)
(* ComposedTransitionSystem (common.rs): a node over two leaves            *)
(***************************************************************************)
composed_remove_clocks(ts, clocks) ==
    LET left == remove_clocks(ts.left, clocks)
        right == remove_clocks(ts.right, clocks)
        new_dim == get_dim(right) + get_dim(left)
    IN [ts EXCEPT !.left = left, !.right = right, !.dim = new_dim]

composed_replace_clocks(ts, m, order) ==
    LET left == replace_clocks(ts.left, m, order)
        right == replace_clocks(ts.right, m, order)
        new_dim == get_dim(right) + get_dim(left)
    IN [ts EXCEPT !.left = left, !.right = right, !.dim = new_dim]

\* dynamic dispatch on the TransitionSystemPtr
ts_remove_clocks(ts, clocks) ==
    IF ts.kind = "leaf" THEN remove_clocks(ts, clocks) ELSE composed_remove_clocks(ts, clocks)

ts_replace_clocks(ts, m, order) ==
    IF ts.kind = "leaf" THEN replace_clocks(ts, m, order)
    ELSE composed_replace_clocks(ts, m, order)

leaves(ts) == IF ts.kind = "leaf" THEN {ts} ELSE {ts.left, ts.right}

\* every federation a leaf owns: invariants of the location map, guards,
\* the stored initial location and the target locations of the transitions
location_zones(leaf) ==
    {leaf.locations[id].invariant.val :
        id \in {l \in DOMAIN leaf.locations : leaf.locations[l].invariant.some}}

guard_zones(leaf) ==
    UNION {{leaf.location_edges[id][k].guard_zone : k \in DOMAIN leaf.location_edges[id]} :
              id \in DOMAIN leaf.location_edges}

all_transitions(leaf) ==
    UNION {{leaf.location_edges[id][k] : k \in DOMAIN leaf.location_edges[id]} :
              id \in DOMAIN leaf.location_edges}

target_zones(leaf) ==
    {t.target_locations.invariant.val :
        t \in {u \in all_transitions(leaf) : u.target_locations.invariant.some}}

initial_zones(leaf) ==
    IF leaf.initial_location.some /\ leaf.initial_location.val.invariant.some
    THEN {leaf.initial_location.val.invariant.val}
    ELSE {}

\* Federation::from_disjunction is handed constraints of clocks beyond the
\* dimension: the rewrite does not return
rewrite_panics(ts) ==
    \E leaf \in leaves(ts) : \E fed \in location_zones(leaf) \cup guard_zones(leaf) :
        ~fed_in_range(fed)

(***************************************************************************)
(* Compilation of a component into a leaf                                  *)
(* (CompiledComponent::compile_with_actions)                               *)
(***************************************************************************)
\* a component is [declarations, invariants, edges, inputs, outputs]; its
\* invariants and guards are federations of the dimension it is compiled with
\* Component::get_max_bounds: a table of dimension d with, for every declared
\* clock, the largest constant a guard or an invariant compares it with
get_max_bounds(component, d) ==
    LET feds == {component.invariants[id].val :
                    id \in {l \in DOMAIN component.invariants : component.invariants[l].some}}
                \cup {component.edges[k].guard : k \in DOMAIN component.edges}
        constraints == UNION {UNION {Range(fed.conjs[k]) : k \in DOMAIN fed.conjs} :
                                 fed \in feds}
        constants(c) ==
            {0} \cup {IF x.b < 0 THEN -x.b ELSE x.b :
                         x \in {y \in constraints : y.i = c \/ y.j = c}}
    IN [dim |-> d,
        bounds |-> [c \in {component.declarations[n] : n \in DOMAIN component.declarations} |->
                       CHOOSE m \in constants(c) : \A x \in constants(c) : x <= m]]

compiled_leaf(component, inputs, outputs, d) ==
    LET locations ==
            [id \in DOMAIN component.invariants |->
                LocationTree(id, component.invariants[id])]
        edges_of(id) ==
            SelectSeq(component.edges, LAMBDA e : e.source_location = id)
        location_edges ==
            [id \in DOMAIN component.invariants |->
                [k \in DOMAIN edges_of(id) |->
                    Transition(edges_of(id)[k].sync,
                               edges_of(id)[k].guard,
                               edges_of(id)[k].updates,
                               LocationTree(edges_of(id)[k].target_location,
                                            component.invariants[edges_of(id)[k].target_location]))]]
    IN [kind |-> "leaf",
        inputs |-> inputs,
        outputs |-> outputs,
        locations |-> locations,
        location_edges |-> location_edges,
        initial_location |-> IF component.initial.some
                             THEN Some(locations[component.initial.val])
                             ELSE None,
        declarations |-> component.declarations,
        max_bounds |-> get_max_bounds(component, d),
        dim |-> d]

\* ActionFailure::not_disjoint_io(..).map_err(..)? : the Err the caller gets
not_disjoint_io(inputs, outputs) ==
    [kind |-> "failure", failure |-> "not_disjoint_io",
     inputs |-> inputs, outputs |-> outputs]

\* a variant without the check of the action sets
compile_with_actions_unchecked(component, inputs, outputs, d) ==
    compiled_leaf(component, inputs, outputs, d)

compile_with_actions(component, inputs, outputs, d) ==
    IF inputs \cap outputs # {}
    THEN not_disjoint_io(inputs, outputs)
    ELSE compiled_leaf(component, inputs, outputs, d)

compile(component, d) ==
    compile_with_actions(component, component.inputs, component.outputs, d)

get_actions(leaf) == leaf.inputs \cup leaf.outputs

get_initial_location(leaf) == leaf.initial_location

\* Bounds::new(dim) is the table without bounds; the universal and the
\* inconsistent location carry their kind as their id
get_local_max_bounds(leaf, loc) ==
    IF loc.id \in {"universal", "inconsistent"}
    THEN [dim |-> get_dim(leaf), bounds |-> <<>>]
    ELSE leaf.max_bounds

\* a variant that answers with the edges of every location
next_transitions_of_all_locations(leaf, location, action) ==
    SelectSeq(leaf.location_edges["L0"] \o leaf.location_edges["L1"],
              LAMBDA t : t.action = action)

\* Transition::without_id: a self-loop at the location with an unconstrained
\* guard and no updates
without_id(location, d) == Transition("", Universe(d), <<>>, location)

\* a location of type Universal or Inconsistent carries the type as its id
next_transitions(leaf, location, action) ==
    IF location.id = "universal" \/ (location.id = "inconsistent" /\ action \in leaf.inputs)
    THEN <<[without_id(location, leaf.dim) EXCEPT !.action = action]>>
    ELSE SelectSeq(leaf.location_edges[location.id], LAMBDA t : t.action = action)

(***************************************************************************)
(* ClockAnalysisGraph (clock_analysis_graph.rs)                            *)
(***************************************************************************)
from_dim(d) == [nodes |-> <<>>, edges |-> <<>>, dim |-> d]

invariant_dependencies(location) ==
    IF location.invariant.some THEN fed_clocks(location.invariant.val) ELSE {}

analysis_edge(location, action, transition) ==
    [from |-> location.id,
     to |-> transition.target_locations.id,
     guard_dependencies |-> fed_clocks(transition.guard_zone),
     updates |-> transition.updates,
     edge_type |-> action]

\* HashMap::insert on the nodes of the graph
insert_node(nodes, node) ==
    [id \in DOMAIN nodes \cup {node.id} |-> IF id = node.id THEN node ELSE nodes[id]]

\* the transitions of a location for every action, in the order of the loop
transitions_from(system, location) ==
    Flatten([a \in DOMAIN ActionSeq |->
                IF ActionSeq[a] \in get_actions(system)
                THEN [k \in DOMAIN next_transitions(system, location, ActionSeq[a]) |->
                         [action |-> ActionSeq[a],
                          transition |-> next_transitions(system, location, ActionSeq[a])[k]]]
                ELSE <<>>])

\* a variant that reads the head of the worklist and leaves it there
worklist_step_peeking(system, worklist, g) ==
    [worklist |-> worklist,
     graph |-> [g EXCEPT !.nodes = insert_node(g.nodes,
                                               [invariant_dependencies |->
                                                    invariant_dependencies(Head(worklist)),
                                                id |-> Head(worklist).id])]]

\* one iteration of the while loop: the head of the worklist is taken off
worklist_step(system, worklist, g) ==
    LET location == Head(worklist)
        node == [invariant_dependencies |-> invariant_dependencies(location),
                 id |-> location.id]
        nodes == insert_node(g.nodes, node)
        found == transitions_from(system, location)
        new_edges == [k \in DOMAIN found |->
                         analysis_edge(location, found[k].action, found[k].transition)]
        unseen == SelectSeq(found,
                            LAMBDA f : f.transition.target_locations.id \notin DOMAIN nodes)
        pushed == [k \in DOMAIN unseen |-> unseen[k].transition.target_locations]
    IN [worklist |-> Tail(worklist) \o pushed,
        graph |-> [g EXCEPT !.nodes = nodes, !.edges = g.edges \o new_edges]]

RECURSIVE find_edges_and_nodes(_, _, _)
find_edges_and_nodes(system, worklist, g) ==
    IF worklist = <<>>
    THEN g
    ELSE LET step == worklist_step(system, worklist, g)
         IN find_edges_and_nodes(system, step.worklist, step.graph)

from_system(system) ==
    find_edges_and_nodes(system, <<get_initial_location(system).val>>, from_dim(get_dim(system)))

\* a variant that also counts the clocks an edge resets as used
find_used_clocks_with_updates(g) ==
    (UNION {g.edges[k].guard_dependencies \cup
               {g.edges[k].updates[n].clock_index : n \in DOMAIN g.edges[k].updates} :
            k \in DOMAIN g.edges}
        \cup UNION {g.nodes[id].invariant_dependencies : id \in DOMAIN g.nodes}) \ {0}

\* a variant that keeps clock 0 among the used clocks
find_used_clocks_keeping_zero(g) ==
    UNION {g.edges[k].guard_dependencies : k \in DOMAIN g.edges}
        \cup UNION {g.nodes[id].invariant_dependencies : id \in DOMAIN g.nodes}

find_used_clocks(g) ==
    (UNION {g.edges[k].guard_dependencies : k \in DOMAIN g.edges}
        \cup UNION {g.nodes[id].invariant_dependencies : id \in DOMAIN g.nodes}) \ {0}

\* the value the last update of the clock on the edge sets, as HashMap::insert keeps it
last_update(updates, clock) ==
    LET ks == {k \in DOMAIN updates : updates[k].clock_index = clock}
    IN updates[CHOOSE k \in ks : \A n \in ks : n <= k].value

is_updated(updates, clock) == \E k \in DOMAIN updates : updates[k].clock_index = clock

\* a variant that forgets the value a clock is reset to
group_key_without_value(updates, clock, old_group_index) ==
    IF \E k \in DOMAIN updates : updates[k].clock_index = clock
    THEN <<1 + 2 * old_group_index, 0>>
    ELSE <<0, old_group_index>>

\* the key of new_groups a clock of the old group old_group_index goes to;
\* old_group_index counts from 0.  A key is written <<m, r>> for the number
\* m * u32::MAX + r with r < u32::MAX: group_offset is u32::MAX at the first
\* group and grows by 2 * u32::MAX with every group
group_key(updates, clock, old_group_index) ==
    IF is_updated(updates, clock)
    THEN <<1 + 2 * old_group_index, last_update(updates, clock)>>
    ELSE <<0, old_group_index>>

key_less(a, b) == a[1] < b[1] \/ (a[1] = b[1] /\ a[2] < b[2])

RECURSIVE keys_in_order(_)
keys_in_order(keys) ==
    IF keys = {}
    THEN <<>>
    ELSE LET first == CHOOSE a \in keys : \A b \in keys \ {a} : key_less(a, b)
         IN <<first>> \o keys_in_order(keys \ {first})

\* one iteration of the loop over the edges; the groups that are kept are
\* listed by ascending key
refine_groups(groups, updates) ==
    LET key_of(clock, k) == group_key(updates, clock, k - 1)
        keys == UNION {{key_of(c, k) : c \in groups[k]} : k \in DOMAIN groups}
        new_groups == [key \in keys |->
                          UNION {{c \in groups[k] : key_of(c, k) = key} : k \in DOMAIN groups}]
        kept == {key \in keys : Cardinality(new_groups[key]) > 1}
        order == keys_in_order(kept)
    IN [n \in DOMAIN order |-> new_groups[order[n]]]

\* a variant that stops after the first edge
refine_over_first_edge(groups, edges) ==
    IF edges = <<>> THEN groups ELSE refine_groups(groups, Head(edges).updates)

RECURSIVE refine_over_edges(_, _)
refine_over_edges(groups, edges) ==
    IF edges = <<>>
    THEN groups
    ELSE refine_over_edges(refine_groups(groups, Head(edges).updates), Tail(edges))

find_equivalent_clock_groups(g, used_clocks) ==
    IF Cardinality(used_clocks) < 2 \/ g.edges = <<>>
    THEN <<>>
    ELSE refine_over_edges(<<used_clocks>>, g.edges)

unused_clocks_of(g, used_clocks) ==
    SetToSortedSeq({clock \in 1..(g.dim - 1) : clock \notin used_clocks})

find_clock_redundancies(g) ==
    LET used_clocks == find_used_clocks(g)
    IN [unused |-> unused_clocks_of(g, used_clocks),
        groups |-> find_equivalent_clock_groups(g, used_clocks)]

(***************************************************************************)
(* The components the model compiles.  A component has the locations L0    *)
(* (initial) and L1, up to one edge L0 -> L1 and one edge L1 -> L0 on the  *)
(* action a, guards x <= 1, invariants x <= 2 and resets to 0 or 1.        *)
(***************************************************************************)
EdgeSlots == <<[source_location |-> "L0", target_location |-> "L1"],
               [source_location |-> "L1", target_location |-> "L0"]>>

BoundFed(d, cs, b) ==
    [dim |-> d, conjs |-> <<[k \in DOMAIN cs |-> Constraint(cs[k], 0, b)]>>]

GuardChoices(owned, d) ==
    {Universe(d)} \cup {BoundFed(d, <<c>>, 1) : c \in owned}

UpdateChoices(owned) ==
    {<<>>}
    \cup {<<Update(c, 0)>> : c \in owned}
    \cup {<<Update(c, 0), Update(c + 1, 0)>> : c \in {o \in owned : o + 1 \in owned}}
    \cup {<<Update(c, 0), Update(c + 1, 1)>> : c \in {o \in owned : o + 1 \in owned}}
    \cup {[k \in 1..Cardinality(owned) |-> Update(SetToSortedSeq(owned)[k], 0)]}

\* at most one location has an invariant: L1 a bound on one clock, L0 a
\* bound on two clocks
InvariantChoices(owned, d) ==
    {[id \in LocIds |-> None]}
    \cup {[id \in LocIds |-> IF id = "L1" THEN Some(BoundFed(d, <<c>>, 2)) ELSE None] :
             c \in owned}
    \cup {[id \in LocIds |-> IF id = "L0" THEN Some(BoundFed(d, <<c, c + 1>>, 2)) ELSE None] :
             c \in {o \in owned : o + 1 \in owned}}

EdgeChoices(owned, d, n) ==
    [1..n -> [guard : GuardChoices(owned, d), updates : UpdateChoices(owned)]]

Component(owned, invariants, choice) ==
    [declarations |-> [name \in {ClockNames[c] : c \in owned} |->
                          CHOOSE c \in owned : ClockNames[c] = name],
     invariants |-> invariants,
     edges |-> [k \in DOMAIN choice |->
                   [source_location |-> EdgeSlots[k].source_location,
                    target_location |-> EdgeSlots[k].target_location,
                    sync |-> "a",
                    guard |-> choice[k].guard,
                    updates |-> choice[k].updates]],
     initial |-> Some("L0"),
     inputs |-> {},
     outputs |-> {"a"}]

Components(owned, d, max_edges) ==
    UNION {{Component(owned, inv, choice) :
               inv \in InvariantChoices(owned, d), choice \in EdgeChoices(owned, d, n)} :
           n \in 0..max_edges}

NoSystem == [kind |-> "none"]

NoApplied ==
    [l_found |-> <<>>, r_found |-> <<>>,
     l_remove |-> <<>>, l_replace |-> <<>>, r_remove |-> <<>>, r_replace |-> <<>>]

NoRedundancies == [unused |-> <<>>, groups |-> <<>>]

NoSim == [loc |-> "L0", v |-> <<>>, w |-> <<>>]

\* the state after the operands of a query have been compiled
InitOperands(l, r, q) ==
    /\ lhs = l
    /\ rhs = r
    /\ orig = [lhs |-> l, rhs |-> r]
    /\ dim = get_dim(l) - 1
    /\ quotient_clock = q
    /\ pc = "compiled"
    /\ applied = NoApplied
    /\ graph = from_dim(0)
    /\ redundant = NoRedundancies
    /\ sim = NoSim

(***************************************************************************)
(* Analysis of a compiled component: find_redundant_clocks                 *)
(***************************************************************************)
InitAnalysis ==
    \E c \in Components(Clocks, GlobalDim, Len(EdgeSlots)) :
        InitOperands(compile(c, GlobalDim), NoSystem, None)

FindRedundantClocks ==
    /\ pc = "compiled"
    /\ graph' = from_system(lhs)
    /\ redundant' = find_clock_redundancies(graph')
    /\ pc' = "analysed"
    /\ UNCHANGED <<lhs, rhs, dim, quotient_clock, orig, applied, sim>>

NextAnalysis == FindRedundantClocks

SpecAnalysis == InitAnalysis /\ [][NextAnalysis]_vars

(***************************************************************************)
(* Clock reduction (reduction.rs)                                          *)
(***************************************************************************)
RemoveClock(clock_index) ==
    [kind |-> "RemoveClock", clock_index |-> clock_index, replacing_clock |-> clock_index]

ReplaceClock(clock_index, replacing_clock) ==
    [kind |-> "ReplaceClock", clock_index |-> clock_index,
     replacing_clock |-> replacing_clock]

get_clock_index(ins) == ins.clock_index

\* the instructions of an analysis result: every unused clock is removed and
\* every other clock of a group is replaced by the smallest clock of the group
instructions_of(found) ==
    [k \in DOMAIN found.unused |-> RemoveClock(found.unused[k])]
    \o Flatten([n \in DOMAIN found.groups |->
                   LET rep == Min(found.groups[n])
                       others == SetToSortedSeq(found.groups[n] \ {rep})
                   IN [k \in DOMAIN others |-> ReplaceClock(others[k], rep)]])

find_redundant_clocks(system) ==
    instructions_of(find_clock_redundancies(from_system(system)))

\* Option::unwrap_or_default on the quotient clock
unwrap_or_default(q) == IF q.some THEN q.val ELSE 0

\* the replacements are a function clock -> replacing clock, as the HashMap
extract_remove_and_replace_from_instruction(instructions) ==
    LET removes == SelectSeq(instructions, LAMBDA ins : ins.kind = "RemoveClock")
        replaces == SelectSeq(instructions, LAMBDA ins : ins.kind = "ReplaceClock")
        last(c) == CHOOSE k \in DOMAIN replaces :
                       /\ replaces[k].clock_index = c
                       /\ \A n \in DOMAIN replaces : replaces[n].clock_index = c => n <= k
    IN [remove |-> [k \in DOMAIN removes |-> removes[k].clock_index],
        replace |-> [c \in {replaces[k].clock_index : k \in DOMAIN replaces} |->
                        replaces[last(c)].replacing_clock]]

\* a variant that hands over the instructions of both operands
get_unique_redundant_clocks_of_either(l, r, quotient, in_bounds) == l \o r

\* in_bounds is the set of clocks the bound predicate accepts
get_unique_redundant_clocks(l, r, quotient, in_bounds) ==
    SelectSeq(l, LAMBDA ins :
                    /\ ins \in Range(r)
                    /\ get_clock_index(ins) \in in_bounds
                    /\ get_clock_index(ins) # quotient)

filter_redundant_clocks(l, r, q, split_index) ==
    LET quotient == unwrap_or_default(q)
        named == {get_clock_index(ins) : ins \in Range(l) \cup Range(r)}
    IN [l |-> get_unique_redundant_clocks(l, r, quotient, {c \in named : c <= split_index}),
        r |-> get_unique_redundant_clocks(r, l, quotient, {c \in named : c > split_index})]

\* remove_clocks and then replace_clocks on one operand, each only when there
\* is something to do; order is the iteration order of the replacement map
rewrite(system, remove, replace, order) ==
    LET removed == IF remove # <<>> THEN ts_remove_clocks(system, remove) ELSE system
        replaced == IF DOMAIN replace # {}
                    THEN ts_replace_clocks(removed, replace, order)
                    ELSE removed
    IN [system |-> replaced,
        panics |-> rewrite_panics(removed) \/ rewrite_panics(replaced)]

\* the body of clock_reduce_single; every intermediate result is bound once
clock_reduce_single ==
    \E found \in {find_redundant_clocks(lhs)} :
    \E clocks \in {SelectSeq(found,
                    LAMBDA ins : get_clock_index(ins) # unwrap_or_default(quotient_clock))} :
    \E todo \in {extract_remove_and_replace_from_instruction(clocks)} :
    \E order \in Perms(DOMAIN todo.replace) :
    \E done \in {rewrite(lhs, todo.remove, todo.replace, order)} :
        /\ dim' = dim - Len(clocks)
        /\ lhs' = done.system
        /\ pc' = IF done.panics THEN "panicked" ELSE "reduced"
        /\ applied' = [NoApplied EXCEPT !.l_found = found,
                                        !.l_remove = todo.remove,
                                        !.l_replace = todo.replace]
        /\ UNCHANGED rhs

\* the body of clock_reduce for two operands
clock_reduce_two ==
    \E l_found \in {find_redundant_clocks(lhs)} :
    \E r_found \in {find_redundant_clocks(rhs)} :
    \E clocks \in {filter_redundant_clocks(l_found, r_found, quotient_clock, get_dim(lhs))} :
    \E l_todo \in {extract_remove_and_replace_from_instruction(clocks.l)} :
    \E r_todo \in {extract_remove_and_replace_from_instruction(clocks.r)} :
    \E l_order \in Perms(DOMAIN l_todo.replace) :
    \E r_order \in Perms(DOMAIN r_todo.replace) :
    \E l_done \in {rewrite(lhs, l_todo.remove, l_todo.replace, l_order)} :
    \E r_done \in {rewrite(rhs, r_todo.remove, r_todo.replace, r_order)} :
        /\ dim' = dim - (Len(clocks.l) + Len(clocks.r))
        /\ lhs' = l_done.system
        /\ rhs' = r_done.system
        /\ pc' = IF l_done.panics \/ r_done.panics THEN "panicked" ELSE "reduced"
        /\ applied' = [l_found |-> l_found, r_found |-> r_found,
                       l_remove |-> l_todo.remove, l_replace |-> l_todo.replace,
                       r_remove |-> r_todo.remove, r_replace |-> r_todo.replace]

\* clock_reduce with rhs = None; it returns at once when *dim == 0
ClockReduceSingle ==
    /\ pc = "compiled"
    /\ rhs = NoSystem
    /\ IF dim = 0
       THEN /\ pc' = "reduced"
            /\ UNCHANGED <<lhs, rhs, dim, applied>>
       ELSE clock_reduce_single
    /\ UNCHANGED <<quotient_clock, orig, graph, redundant, sim>>

\* clock_reduce with two operands
ClockReduceTwo ==
    /\ pc = "compiled"
    /\ rhs # NoSystem
    /\ IF dim = 0
       THEN /\ pc' = "reduced"
            /\ UNCHANGED <<lhs, rhs, dim, applied>>
       ELSE clock_reduce_two
    /\ UNCHANGED <<quotient_clock, orig, graph, redundant, sim>>

\* a second analysis of the reduced left operand
SecondPass ==
    /\ pc = "reduced"
    /\ graph' = from_system(lhs)
    /\ redundant' = find_clock_redundancies(graph')
    /\ pc' = "reanalysed"
    /\ UNCHANGED <<lhs, rhs, dim, quotient_clock, orig, applied, sim>>

\* the quotient clocks clock_reduce is called with
QuotientChoices == {None} \cup {Some(q) : q \in {1, NumClocks}}

InitSingle ==
    \E c \in Components(Clocks, GlobalDim, Len(EdgeSlots)) : \E q \in QuotientChoices :
        InitOperands(compile(c, GlobalDim), NoSystem, q)

\* the clocks 1..SplitAt are declared by the left operand, the others by the
\* right operand; both are compiled with the dimension of the whole system
InitTwo ==
    \E l \in Components(1..SplitAt, GlobalDim, 1) :
    \E r \in Components((SplitAt + 1)..NumClocks, GlobalDim, 1) :
    \E q \in QuotientChoices :
        InitOperands(compile(l, GlobalDim), compile(r, GlobalDim), q)

InitReduce == InitSingle \/ InitTwo

NextReduce == ClockReduceSingle \/ ClockReduceTwo \/ SecondPass

SpecReduce == InitReduce /\ [][NextReduce]_vars

(***************************************************************************)
(* Rewriting a tree directly: remove_clocks and replace_clocks             *)
(***************************************************************************)
\* an internal node over two leaves; its dimension is the dimension of the
\* whole system
Composed(left, right, d) == [kind |-> "composed", left |-> left, right |-> right, dim |-> d]

\* the clock indices some leaf of the tree declares
declared_clocks(ts) ==
    UNION {{leaf.declarations[name] : name \in DOMAIN leaf.declarations} : leaf \in leaves(ts)}

\* the arguments of remove_clocks: sorted lists of one or more declared clocks
RemoveChoices(ts) ==
    {SetToSortedSeq(S) : S \in (SUBSET declared_clocks(ts)) \ {{}}}

\* the arguments of replace_clocks: some declared clocks are mapped to a
\* smaller declared clock
ReplaceChoices(ts) ==
    UNION {{[c \in K |-> rep] :
               K \in (SUBSET {c \in declared_clocks(ts) : c > rep}) \ {{}}} :
           rep \in declared_clocks(ts)}

InitLeaf ==
    \E c \in Components(Clocks, GlobalDim, 1) :
        InitOperands(compile(c, GlobalDim), NoSystem, None)

InitComposed ==
    \E l \in Components(1..SplitAt, GlobalDim, 1) :
    \E r \in Components((SplitAt + 1)..NumClocks, GlobalDim, 1) :
        InitOperands(Composed(compile(l, GlobalDim), compile(r, GlobalDim), GlobalDim),
                     NoSystem, None)

InitRewrite == InitLeaf \/ InitComposed

\* one call of remove_clocks on the root of the tree
RemoveClocks ==
    /\ pc \in {"compiled", "rewritten"}
    /\ \E clocks \in RemoveChoices(lhs) :
       \E done \in {ts_remove_clocks(lhs, clocks)} :
           /\ lhs' = done
           /\ applied' = [NoApplied EXCEPT !.l_remove = clocks]
           /\ pc' = IF rewrite_panics(done) THEN "panicked" ELSE "rewritten"
    /\ orig' = [lhs |-> lhs, rhs |-> rhs]
    /\ UNCHANGED <<rhs, dim, quotient_clock, graph, redundant, sim>>

\* one call of replace_clocks on the root of the tree
ReplaceClocks ==
    /\ pc \in {"compiled", "rewritten"}
    /\ \E m \in ReplaceChoices(lhs) :
       \E order \in Perms(DOMAIN m) :
       \E done \in {ts_replace_clocks(lhs, m, order)} :
           /\ lhs' = done
           /\ applied' = [NoApplied EXCEPT !.l_replace = m]
           /\ pc' = IF rewrite_panics(done) THEN "panicked" ELSE "rewritten"
    /\ orig' = [lhs |-> lhs, rhs |-> rhs]
    /\ UNCHANGED <<rhs, dim, quotient_clock, graph, redundant, sim>>

NextRewrite == RemoveClocks \/ ReplaceClocks

SpecRewrite == InitRewrite /\ [][NextRewrite]_vars

(***************************************************************************)
(* The reduced component run next to the original one                      *)
(***************************************************************************)
\* the value of clock i in the valuation v; clock 0 is the reference clock
clock_value(v, i) == IF i = 0 THEN 0 ELSE v[i]

\* v is a valuation of the clocks 1..fed.dim - 1
satisfies(fed, v) ==
    \E k \in DOMAIN fed.conjs : \A n \in DOMAIN fed.conjs[k] :
        clock_value(v, fed.conjs[k][n].i) - clock_value(v, fed.conjs[k][n].j)
            <= fed.conjs[k][n].b

invariant_holds(leaf, id, v) ==
    leaf.locations[id].invariant.some => satisfies(leaf.locations[id].invariant.val, v)

RECURSIVE apply_updates(_, _)
apply_updates(v, updates) ==
    IF updates = <<>>
    THEN v
    ELSE apply_updates([v EXCEPT ![Head(updates).clock_index] = Head(updates).value],
                       Tail(updates))

updates_in_range(leaf) ==
    \A t \in all_transitions(leaf) : \A n \in DOMAIN t.updates :
        t.updates[n].clock_index \in 1..(leaf.dim - 1)

is_enabled(leaf, t, v) ==
    /\ satisfies(t.guard_zone, v)
    /\ invariant_holds(leaf, t.target_locations.id, apply_updates(v, t.updates))

\* the (location, action, target) transitions enabled at the state (id, v)
enabled_transitions(leaf, id, v) ==
    {<<id, t.action, t.target_locations.id>> :
        t \in {u \in Range(leaf.location_edges[id]) : is_enabled(leaf, u, v)}}

delay(v) == [c \in DOMAIN v |-> v[c] + 1]

InitSound ==
    \E c \in Components(Clocks, GlobalDim, Len(EdgeSlots)) :
        InitOperands(compile(c, GlobalDim), NoSystem, None)

\* both components start in the initial location with every clock at zero
StartRun ==
    /\ pc = "reduced"
    /\ pc' = IF updates_in_range(lhs) THEN "running" ELSE "panicked"
    /\ sim' = [loc |-> get_initial_location(lhs).val.id,
               v |-> [c \in 1..(get_dim(orig.lhs) - 1) |-> 0],
               w |-> [c \in 1..(get_dim(lhs) - 1) |-> 0]]
    /\ UNCHANGED <<lhs, rhs, dim, quotient_clock, orig, applied, graph, redundant>>

\* one time unit passes in both components
Delay ==
    /\ pc = "running"
    /\ \A c \in DOMAIN sim.v : sim.v[c] < MaxVal
    /\ \A c \in DOMAIN sim.w : sim.w[c] < MaxVal
    /\ invariant_holds(orig.lhs, sim.loc, delay(sim.v))
    /\ invariant_holds(lhs, sim.loc, delay(sim.w))
    /\ sim' = [sim EXCEPT !.v = delay(sim.v), !.w = delay(sim.w)]
    /\ UNCHANGED <<lhs, rhs, dim, quotient_clock, pc, orig, applied, graph, redundant>>

\* both components take the same edge
Fire ==
    /\ pc = "running"
    /\ \E k \in DOMAIN lhs.location_edges[sim.loc] :
          LET t == orig.lhs.location_edges[sim.loc][k]
              u == lhs.location_edges[sim.loc][k]
          IN /\ is_enabled(orig.lhs, t, sim.v)
             /\ is_enabled(lhs, u, sim.w)
             /\ sim' = [loc |-> u.target_locations.id,
                        v |-> apply_updates(sim.v, t.updates),
                        w |-> apply_updates(sim.w, u.updates)]
    /\ UNCHANGED <<lhs, rhs, dim, quotient_clock, pc, orig, applied, graph, redundant>>

NextSound == ClockReduceSingle \/ StartRun \/ Delay \/ Fire

SpecSound == InitSound /\ [][NextSound]_vars

(***************************************************************************)
(* Properties of the analysis                                              *)
(***************************************************************************)
\* C2: find_clock_redundancies reports a clock index c as unused if and only
\* if 1 <= c < dim and no node's invariant dependencies and no edge's guard
\* dependencies mention c (a clock that is only reset is unused), and the
\* list of unused clocks is ascending.
UnusedIffNotMentioned ==
    pc = "analysed" =>
        /\ \A c \in 0..(graph.dim + 1) :
              (c \in Range(redundant.unused)) <=>
                  /\ 1 <= c
                  /\ c < graph.dim
                  /\ \A id \in DOMAIN graph.nodes :
                        c \notin graph.nodes[id].invariant_dependencies
                  /\ \A k \in DOMAIN graph.edges :
                        c \notin graph.edges[k].guard_dependencies
        /\ \A k \in 1..(Len(redundant.unused) - 1) :
              redundant.unused[k] < redundant.unused[k + 1]

\* C2 witness: the analysis has reported two clocks unused, one of them is
\* reset on an edge, and another clock is used.
UnusedClockOnlyInUpdates ==
    /\ pc = "analysed"
    /\ Len(redundant.unused) = 2
    /\ \E k \in DOMAIN graph.edges : \E n \in DOMAIN graph.edges[k].updates :
          graph.edges[k].updates[n].clock_index \in Range(redundant.unused)
    /\ \E k \in DOMAIN graph.edges : graph.edges[k].guard_dependencies # {}

\* C3 as stated: for every analysis graph, zero edges included, two used
\* clocks are in the same group if and only if on every edge they are both
\* not reset or both reset to the same constant.
GroupedIffSameResets ==
    pc = "analysed" =>
        LET used == (UNION {graph.edges[k].guard_dependencies : k \in DOMAIN graph.edges}
                        \cup UNION {graph.nodes[id].invariant_dependencies :
                                       id \in DOMAIN graph.nodes}) \ {0}
            resets(k, c) == {u \in Range(graph.edges[k].updates) : u.clock_index = c}
            values(k, c) == {u.value : u \in resets(k, c)}
        IN \A c1 \in used : \A c2 \in used \ {c1} :
              (\E n \in DOMAIN redundant.groups : {c1, c2} \subseteq redundant.groups[n])
                  <=> (\A k \in DOMAIN graph.edges : values(k, c1) = values(k, c2))

\* C3 amended: the equivalence holds for every analysis graph with at least
\* one edge; for a graph without edges no group is reported.
GroupedIffSameResetsWithEdges ==
    pc = "analysed" =>
        LET used == (UNION {graph.edges[k].guard_dependencies : k \in DOMAIN graph.edges}
                        \cup UNION {graph.nodes[id].invariant_dependencies :
                                       id \in DOMAIN graph.nodes}) \ {0}
            resets(k, c) == {u \in Range(graph.edges[k].updates) : u.clock_index = c}
            values(k, c) == {u.value : u \in resets(k, c)}
        IN IF graph.edges = <<>>
           THEN redundant.groups = <<>>
           ELSE \A c1 \in used : \A c2 \in used \ {c1} :
                   (\E n \in DOMAIN redundant.groups : {c1, c2} \subseteq redundant.groups[n])
                       <=> (\A k \in DOMAIN graph.edges : values(k, c1) = values(k, c2))

\* C3 witness: a graph with edges in which two used clocks are grouped and a
\* third used clock, reset differently, is in no group.
GroupAndLoneClock ==
    /\ pc = "analysed"
    /\ graph.edges # <<>>
    /\ Len(redundant.groups) = 1
    /\ redundant.unused = <<>>
    /\ \E k \in DOMAIN graph.edges : graph.edges[k].updates # <<>>
    /\ Cardinality(redundant.groups[1]) = 2

(***************************************************************************)
(* Properties of clock_reduce                                              *)
(***************************************************************************)
\* C1: clock-reduction soundness: the reduced system has the same reachable
\* locations as the original and, at every reachable state, the same enabled
\* (location, action, target) transitions, so every query gives the same
\* result on both.
SameEnabledTransitions ==
    pc = "running" =>
        enabled_transitions(orig.lhs, sim.loc, sim.v)
            = enabled_transitions(lhs, sim.loc, sim.w)

\* C4: when clock_reduce is called with quotient_clock = Some(q), q is not in
\* the list of removed clocks, is not a replaced clock and is not the
\* representative of a replacement that is applied, with one operand and
\* with two.
QuotientClockUntouched ==
    (pc = "reduced" /\ quotient_clock.some) =>
        LET q == quotient_clock.val
            representatives(m) == {m[c] : c \in DOMAIN m}
        IN /\ q \notin Range(applied.l_remove) \cup Range(applied.r_remove)
           /\ q \notin DOMAIN applied.l_replace \cup DOMAIN applied.r_replace
           /\ q \notin representatives(applied.l_replace)
                          \cup representatives(applied.r_replace)

\* C5: in clock_reduce with two operands an instruction is applied to an
\* operand only if both analyses produced that instruction and the operand
\* declares the clock it names; no instruction is applied to both operands.
OnlyAgreedAndOwned ==
    (pc = "reduced" /\ rhs # NoSystem) =>
        LET instructions(remove, replace) ==
                {RemoveClock(c) : c \in Range(remove)}
                    \cup {ReplaceClock(c, replace[c]) : c \in DOMAIN replace}
            on_lhs == instructions(applied.l_remove, applied.l_replace)
            on_rhs == instructions(applied.r_remove, applied.r_replace)
            agreed == Range(applied.l_found) \cap Range(applied.r_found)
        IN /\ on_lhs \subseteq agreed
           /\ on_rhs \subseteq agreed
           /\ \A ins \in on_lhs : get_clock_index(ins) \in declared_clocks(orig.lhs)
           /\ \A ins \in on_rhs : get_clock_index(ins) \in declared_clocks(orig.rhs)
           /\ on_lhs \cap on_rhs = {}

\* C6: clock-reduction idempotence: after clock_reduce a second analysis of
\* the result reports no unused clock and no equivalence group.
SecondPassFindsNothing ==
    (pc = "reanalysed" /\ rhs = NoSystem /\ ~quotient_clock.some) =>
        redundant = NoRedundancies

\* C7: after remove_clocks or replace_clocks has returned on a leaf, every
\* zone of the leaf has the dimension leaf.get_dim(): the invariants of the
\* locations, the guards of the edges, the invariant of the stored initial
\* location and the invariant of every transition's target location.
ZonesHaveLeafDim ==
    (pc = "rewritten" /\ lhs.kind = "leaf") =>
        \A fed \in location_zones(lhs) \cup guard_zones(lhs)
                      \cup initial_zones(lhs) \cup target_zones(lhs) :
            fed.dim = get_dim(lhs)

\* C8: after leaf.remove_clocks(cs), cs sorted and not empty, every surviving
\* clock is referenced under its old index minus the number of removed clocks
\* below it in the declarations, in every invariant and guard constraint and
\* in every surviving update; the constraints and updates of removed clocks
\* are gone and none of a surviving clock is lost.
RemoveCompactsEverywhere ==
    (pc = "rewritten" /\ lhs.kind = "leaf" /\ applied.l_remove # <<>>) =>
        LET cs == Range(applied.l_remove)
            before == orig.lhs
            compacted(c) == c - Cardinality({r \in cs : r < c})
            kept(fed) == {Constraint(compacted(c.i), compacted(c.j), c.b) :
                             c \in {d \in UNION {Range(fed.conjs[k]) : k \in DOMAIN fed.conjs} :
                                       d.i \notin cs /\ d.j \notin cs}}
            constraints(fed) == UNION {Range(fed.conjs[k]) : k \in DOMAIN fed.conjs}
            kept_updates(updates) ==
                LET surviving == SelectSeq(updates, LAMBDA u : u.clock_index \notin cs)
                IN [n \in DOMAIN surviving |->
                       Update(compacted(surviving[n].clock_index), surviving[n].value)]
        IN /\ lhs.declarations =
                  [name \in {n \in DOMAIN before.declarations :
                                before.declarations[n] \notin cs} |->
                      compacted(before.declarations[name])]
           /\ \A id \in DOMAIN before.locations :
                 before.locations[id].invariant.some =>
                     /\ lhs.locations[id].invariant.some
                     /\ constraints(lhs.locations[id].invariant.val)
                            = kept(before.locations[id].invariant.val)
           /\ \A id \in DOMAIN before.location_edges :
              \A k \in DOMAIN before.location_edges[id] :
                 /\ constraints(lhs.location_edges[id][k].guard_zone)
                        = kept(before.location_edges[id][k].guard_zone)
                 /\ lhs.location_edges[id][k].updates
                        = kept_updates(before.location_edges[id][k].updates)

\* C9: for every node of the tree get_dim() is the number of clocks of the
\* leaves plus one for the reference clock, at construction and after any
\* sequence of remove_clocks and replace_clocks calls on the tree.
DimIsClockCountPlusOne ==
    pc \in {"compiled", "rewritten"} =>
        \A node \in {lhs} \cup leaves(lhs) :
            get_dim(node) = Cardinality(declared_clocks(lhs)) + 1

\* C10: the operands of clock_reduce have get_dim() = *dim + 1 before the
\* call, and every operand has get_dim() = *dim + 1 after it, with one
\* operand and with two.
OperandDimsFollowDim ==
    pc = "reduced" =>
        /\ get_dim(lhs) = dim + 1
        /\ rhs # NoSystem => get_dim(rhs) = dim + 1

(***************************************************************************)
(* Declarations on their own: remove_clocks                                *)
(***************************************************************************)
\* Declarations::remove_clocks: only the clocks are rebuilt
Declarations_remove_clocks(decl, clocks_to_be_removed) ==
    [decl EXCEPT !.clocks = decl_remove_clocks(decl.clocks, clocks_to_be_removed)]

\* declarations [ints, clocks] of up to NumClocks names with pairwise
\* distinct indices
InitDeclarations ==
    /\ \E ints \in {<<>>, [i |-> 0], [i |-> 5]} :
       \E names \in SUBSET {ClockNames[k] : k \in 1..NumClocks} :
       \E clocks \in {f \in [names -> 1..GlobalDim] :
                          \A a, b \in names : a # b => f[a] # f[b]} :
          /\ lhs = [ints |-> ints, clocks |-> clocks]
          /\ orig = [lhs |-> [ints |-> ints, clocks |-> clocks], rhs |-> NoSystem]
    /\ rhs = NoSystem
    /\ dim = NumClocks
    /\ quotient_clock = None
    /\ pc = "declared"
    /\ applied = NoApplied
    /\ graph = from_dim(0)
    /\ redundant = NoRedundancies
    /\ sim = NoSim

\* remove_clocks with a sorted list of one or more different clock indices
DeclarationsRemoveClocks ==
    /\ pc = "declared"
    /\ \E cs \in {SetToSortedSeq(S) : S \in (SUBSET (1..GlobalDim)) \ {{}}} :
          /\ lhs' = Declarations_remove_clocks(lhs, cs)
          /\ applied' = [NoApplied EXCEPT !.l_remove = cs]
    /\ pc' = "removed"
    /\ UNCHANGED <<rhs, dim, quotient_clock, orig, graph, redundant, sim>>

\* the loop over self.clocks.iter_mut() for one group: names is the order
\* the map is iterated in, group the order the set is iterated in and next
\* the position of next_clock_to_be_combined in it
RECURSIVE combine_group(_, _, _, _)
combine_group(clocks, group, names, next) ==
    IF names = <<>> \/ next > Len(group)
    THEN clocks
    ELSE IF clocks[Head(names)] = group[next]
         THEN combine_group([clocks EXCEPT ![Head(names)] = group[1]],
                            group, Tail(names), next + 1)
         ELSE combine_group(clocks, group, Tail(names), next)

\* Declarations::combine_clocks: a group of fewer than two clocks is skipped
RECURSIVE combine_clocks(_, _, _)
combine_clocks(clocks, groups, names) ==
    IF groups = <<>>
    THEN clocks
    ELSE combine_clocks(IF Len(Head(groups)) < 2
                        THEN clocks
                        ELSE combine_group(clocks, Head(groups), names, 2),
                        Tail(groups), names)

\* combine_clocks with one group of clock indices, alone or followed by the
\* group of all other indices; the first HashSet and the HashMap are
\* iterated in any order
DeclarationsCombineClocks ==
    /\ pc = "declared"
    /\ \E A \in (SUBSET (1..GlobalDim)) \ {{}} :
       \E a \in Perms(A), names \in Perms(DOMAIN lhs.clocks) :
          /\ \E groups \in {<<a>>, <<a, SetToSortedSeq((1..GlobalDim) \ A)>>} :
                /\ lhs' = [lhs EXCEPT !.clocks = combine_clocks(lhs.clocks, groups, names)]
                /\ applied' = [NoApplied EXCEPT !.l_found = groups]
          /\ sim' = [names |-> names]
    /\ pc' = "combined"
    /\ UNCHANGED <<rhs, dim, quotient_clock, orig, graph, redundant>>

SpecDeclarations == InitDeclarations /\ [][DeclarationsRemoveClocks]_vars

SpecCombine == InitDeclarations /\ [][DeclarationsCombineClocks]_vars

\* C11: Declarations.remove_clocks(cs), cs sorted ascending (no index twice),
\* deletes exactly the clock names whose index is in cs and gives every
\* surviving name its old index minus the number of elements of cs smaller
\* than it; the surviving names keep pairwise distinct indices and the
\* integer variables are unchanged.
DeclarationsCompacted ==
    pc = "removed" =>
        LET cs == Range(applied.l_remove)
            before == orig.lhs.clocks
        IN /\ DOMAIN lhs.clocks = {n \in DOMAIN before : before[n] \notin cs}
           /\ \A n \in DOMAIN lhs.clocks :
                 lhs.clocks[n] = before[n] - Cardinality({c \in cs : c < before[n]})
           /\ \A a, b \in DOMAIN lhs.clocks : a # b => lhs.clocks[a] # lhs.clocks[b]
           /\ lhs.ints = orig.lhs.ints

\* C11 witness: two clocks were removed, one name was deleted, one surviving
\* name kept its index and another moved down by two.
DeclarationsMovedByTwo ==
    /\ pc = "removed"
    /\ Len(applied.l_remove) = 2
    /\ DOMAIN lhs.clocks # DOMAIN orig.lhs.clocks
    /\ lhs.ints # <<>>
    /\ \E a, b \in DOMAIN lhs.clocks :
          /\ lhs.clocks[a] = orig.lhs.clocks[a]
          /\ lhs.clocks[b] = orig.lhs.clocks[b] - 2

\* C12: after replace_clocks(m) on a leaf, every clock name whose declared
\* index is a key of m is declared with m's value for it and every other name
\* keeps its index; no name is dropped.
LeafDeclarationsReplaced ==
    (pc = "rewritten" /\ lhs.kind = "leaf" /\ applied.l_replace # <<>>) =>
        LET m == applied.l_replace
            before == orig.lhs.declarations
        IN /\ DOMAIN lhs.declarations = DOMAIN before
           /\ \A name \in DOMAIN before :
                 lhs.declarations[name] =
                     IF before[name] \in DOMAIN m THEN m[before[name]] ELSE before[name]

\* C12 witness: y and z were replaced by x on a leaf declaring the three,
\* and x, y and z are all declared with x's index.
ThreeNamesOneIndex ==
    /\ pc = "rewritten"
    /\ lhs.kind = "leaf"
    /\ {"x", "y", "z"} \subseteq DOMAIN orig.lhs.declarations
    /\ DOMAIN applied.l_replace =
          {orig.lhs.declarations["y"], orig.lhs.declarations["z"]}
    /\ \A k \in DOMAIN applied.l_replace :
          applied.l_replace[k] = orig.lhs.declarations["x"]
    /\ orig.lhs.declarations["y"] # orig.lhs.declarations["x"]
    /\ \A n \in {"x", "y", "z"} : lhs.declarations[n] = orig.lhs.declarations["x"]

\* C13: remove_clocks and replace_clocks never return Ok having turned a
\* non-empty zone into an empty one: every invariant and every guard of every
\* leaf that was satisfiable before the call is satisfiable after it, also
\* the unconstrained zone and the zone whose only constraints mention the
\* removed clock.
NonEmptyZonesStayNonEmpty ==
    pc = "rewritten" =>
        LET pairs == IF lhs.kind = "leaf"
                     THEN {<<orig.lhs, lhs>>}
                     ELSE {<<orig.lhs.left, lhs.left>>, <<orig.lhs.right, lhs.right>>}
        IN \A p \in pairs :
              /\ \A id \in DOMAIN p[1].locations :
                    (/\ p[1].locations[id].invariant.some
                     /\ ~is_empty(p[1].locations[id].invariant.val))
                        => ~is_empty(p[2].locations[id].invariant.val)
              /\ \A id \in DOMAIN p[1].location_edges :
                 \A k \in DOMAIN p[1].location_edges[id] :
                    ~is_empty(p[1].location_edges[id][k].guard_zone)
                        => ~is_empty(p[2].location_edges[id][k].guard_zone)

(***************************************************************************)
(* Composition (TransitionSystems/composition.rs)                          *)
(***************************************************************************)
ActionNames == {"a", "b"}

MaxEdges == 2

\* a variant that keeps every input of the operands
Composition_new_keeping_inputs(left, right) ==
    [kind |-> "composition", left |-> left, right |-> right,
     inputs |-> left.inputs \cup right.inputs,
     outputs |-> left.outputs \cup right.outputs]

Composition_new(left, right) ==
    LET left_out == left.outputs
        right_out == right.outputs
        left_in == left.inputs
        right_in == right.inputs
        inputs == {a \in left_in : a \notin right_out} \cup {a \in right_in : a \notin left_out}
        outputs == left_out \cup right_out
    IN [kind |-> "composition", left |-> left, right |-> right,
        inputs |-> inputs, outputs |-> outputs]

\* Transition::combinations: one combined transition per pair, the left
\* transition varying slowest
combinations(left, right) ==
    [k \in 1..(Len(left) * Len(right)) |->
        [kind |-> "combined",
         left |-> left[((k - 1) \div Len(right)) + 1],
         right |-> right[((k - 1) % Len(right)) + 1]]]

\* location is the pair of the children's locations; each child reads its own
Composition_next_transitions(ts, location, action) ==
    LET left == next_transitions(ts.left, ts.left.locations[location[1]], action)
        right == next_transitions(ts.right, ts.right.locations[location[2]], action)
    IN IF left = <<>> \/ right = <<>>
       THEN left \o right
       ELSE combinations(left, right)

\* components without clocks: any two action sets, up to MaxEdges edges
\* leaving L0 on actions of the component
ActionComponents ==
    LET edge_choices(actions) ==
            {[source_location |-> "L0", target_location |-> t, sync |-> s,
              guard |-> Universe(1), updates |-> <<>>] : t \in LocIds, s \in actions}
    IN UNION {{[declarations |-> <<>>,
                invariants |-> [id \in LocIds |-> None],
                edges |-> edges,
                initial |-> Some("L0"),
                inputs |-> i,
                outputs |-> o] :
                  edges \in UNION {[1..n -> edge_choices(i \cup o)] : n \in 0..MaxEdges}} :
              i \in SUBSET ActionNames, o \in SUBSET ActionNames}

InitComposition ==
    /\ \E c \in ActionComponents : orig = [lhs |-> c, rhs |-> NoSystem]
    /\ lhs = NoSystem
    /\ rhs = NoSystem
    /\ dim = 0
    /\ quotient_clock = None
    /\ pc = "recipe"
    /\ applied = NoApplied
    /\ graph = from_dim(0)
    /\ redundant = NoRedundancies
    /\ sim = NoSim

\* the left operand of the recipe is compiled
CompileLeft ==
    /\ pc = "recipe"
    /\ \E leaf \in {compile(orig.lhs, 1)} :
          /\ lhs' = leaf
          /\ pc' = IF leaf.kind = "failure" THEN "failed" ELSE "compiled"
    /\ UNCHANGED <<rhs, dim, quotient_clock, orig, applied, graph, redundant, sim>>

\* the right operand is compiled and, if that succeeds, the node is built
Compose ==
    /\ pc = "compiled"
    /\ \E c \in ActionComponents :
       \E leaf \in {compile(c, 1)} :
          /\ orig' = [orig EXCEPT !.rhs = c]
          /\ lhs' = IF leaf.kind = "failure" THEN leaf ELSE Composition_new(lhs, leaf)
          /\ pc' = IF leaf.kind = "failure" THEN "failed" ELSE "composed"
    /\ UNCHANGED <<rhs, dim, quotient_clock, applied, graph, redundant, sim>>

\* one call of next_transitions on the node
NextTransitions ==
    /\ pc = "composed"
    /\ \E l \in LocIds, r \in LocIds, action \in ActionNames :
          sim' = [loc |-> <<l, r>>, action |-> action,
                  transitions |-> Composition_next_transitions(lhs, <<l, r>>, action)]
    /\ pc' = "queried"
    /\ UNCHANGED <<lhs, rhs, dim, quotient_clock, orig, applied, graph, redundant>>

SpecComposition == InitComposition /\ [][CompileLeft \/ Compose \/ NextTransitions]_vars

\* C14: for an action in the action sets of both children,
\* Composition.next_transitions returns exactly one combination per pair of
\* a left and a right transition on that action, hence nothing when either
\* child has none; for an action of a single child it returns that child's
\* transitions alone.
SharedActionsSynchronize ==
    pc = "queried" =>
        LET a == sim.action
            Tl == SelectSeq(lhs.left.location_edges[sim.loc[1]], LAMBDA t : t.action = a)
            Tr == SelectSeq(lhs.right.location_edges[sim.loc[2]], LAMBDA t : t.action = a)
            in_left == a \in get_actions(lhs.left)
            in_right == a \in get_actions(lhs.right)
        IN /\ (in_left /\ in_right) =>
                 /\ Len(sim.transitions) = Len(Tl) * Len(Tr)
                 /\ \A i \in DOMAIN Tl : \A j \in DOMAIN Tr :
                       \E k \in DOMAIN sim.transitions :
                           /\ sim.transitions[k].kind = "combined"
                           /\ sim.transitions[k].left = Tl[i]
                           /\ sim.transitions[k].right = Tr[j]
           /\ (in_left /\ ~in_right) => sim.transitions = Tl
           /\ (in_right /\ ~in_left) => sim.transitions = Tr

\* C15: Composition::new(L, R), for operands whose own inputs and outputs are
\* disjoint, has inputs (L.in \cup R.in) \ (L.out \cup R.out) and outputs
\* L.out \cup R.out.
ComposedActionSets ==
    pc \in {"composed", "queried"} =>
        LET L == lhs.left
            R == lhs.right
        IN /\ lhs.inputs = (L.inputs \cup R.inputs) \ (L.outputs \cup R.outputs)
           /\ lhs.outputs = L.outputs \cup R.outputs

\* C15 witness: an input of one operand is an output of the other and is no
\* input of the node, while another input remains one.
InputBecomesInternal ==
    /\ pc = "composed"
    /\ lhs.left.inputs \cap lhs.right.outputs # {}
    /\ lhs.inputs # {}
    /\ lhs.inputs # lhs.left.inputs \cup lhs.right.inputs

\* C16: every constructed node has disjoint inputs and outputs:
\* compile_with_actions fails when the two sets overlap, and a Composition
\* over nodes with disjoint sets has disjoint sets.
NodesHaveDisjointActions ==
    /\ pc = "compiled" => lhs.inputs \cap lhs.outputs = {}
    /\ pc \in {"composed", "queried"} =>
          /\ lhs.inputs \cap lhs.outputs = {}
          /\ lhs.left.inputs \cap lhs.left.outputs = {}
          /\ lhs.right.inputs \cap lhs.right.outputs = {}
    /\ (pc # "recipe" /\ orig.lhs.inputs \cap orig.lhs.outputs # {}) =>
          (pc = "failed" /\ lhs.kind = "failure")
    /\ (pc \notin {"recipe", "compiled"} /\ orig.lhs.inputs \cap orig.lhs.outputs = {}) =>
          (orig.rhs.inputs \cap orig.rhs.outputs # {} <=> pc = "failed")

\* C16 witness: the left operand was compiled, the action sets of the right
\* operand overlap and no node was built.
OverlapFailsToCompile ==
    /\ pc = "failed"
    /\ orig.rhs # NoSystem
    /\ orig.lhs.outputs \cap orig.rhs.inputs # {}
    /\ orig.rhs.inputs \cap orig.rhs.outputs # {}
    /\ lhs.kind = "failure"

(***************************************************************************)
(* Queries on a node: get_initial_state, next_transitions of a leaf        *)
(***************************************************************************)
\* OwnedFederation::init: the zone without constraints
init(d) == Universe(d)

\* intersection of two federations: the pairs of conjunctions that a
\* valuation of the clocks 1..dim - 1 with values up to MaxVal satisfies
intersection(a, b) ==
    LET pairs == Flatten([i \in DOMAIN a.conjs |->
                             [j \in DOMAIN b.conjs |-> a.conjs[i] \o b.conjs[j]]])
    IN [dim |-> a.dim,
        conjs |-> SelectSeq(pairs,
                      LAMBDA conj : \E v \in [1..(a.dim - 1) -> 0..MaxVal] :
                                        satisfies([dim |-> a.dim, conjs |-> <<conj>>], v))]

apply_invariants(location, zone) ==
    IF location.invariant.some THEN intersection(zone, location.invariant.val) ELSE zone

\* LocationTree::compose for a composition: the pair of the locations under
\* the conjunction of their invariants
LocationTree_compose(l, r) ==
    LocationTree(<<l.id, r.id>>,
                 IF l.invariant.some /\ r.invariant.some
                 THEN Some(intersection(l.invariant.val, r.invariant.val))
                 ELSE IF l.invariant.some THEN l.invariant ELSE r.invariant)

State_from_location(location, d) ==
    LET zone == apply_invariants(location, init(d))
    IN IF is_empty(zone) THEN None ELSE Some([location |-> location, zone |-> zone])

\* CompiledComponent::get_initial_state
get_initial_state(leaf) ==
    IF ~get_initial_location(leaf).some
    THEN None
    ELSE State_from_location(get_initial_location(leaf).val, leaf.dim)

composed_get_initial_location(ts) ==
    LET l == get_initial_location(ts.left)
        r == get_initial_location(ts.right)
    IN IF ~l.some \/ ~r.some THEN None ELSE Some(LocationTree_compose(l.val, r.val))

\* a variant that returns the state without looking at its zone
composed_get_initial_state_unchecked(ts) ==
    LET init_loc == composed_get_initial_location(ts)
    IN IF ~init_loc.some
       THEN None
       ELSE Some([location |-> init_loc.val,
                  zone |-> apply_invariants(init_loc.val, init(get_dim(ts)))])

composed_get_initial_state(ts) ==
    LET init_loc == composed_get_initial_location(ts)
        zone == apply_invariants(init_loc.val, init(get_dim(ts)))
    IN IF ~init_loc.some
       THEN None
       ELSE IF is_empty(zone) THEN None ELSE Some([location |-> init_loc.val, zone |-> zone])

\* invariants of the initial location L0 over one owned clock: none, an
\* upper bound, a lower bound, both, and one that no valuation satisfies
InitialInvariantChoices(owned, d) ==
    LET at_L0(fed) == [id \in LocIds |-> IF id = "L0" THEN Some(fed) ELSE None]
    IN {[id \in LocIds |-> None]}
       \cup {at_L0(BoundFed(d, <<c>>, 1)) : c \in owned}
       \cup {at_L0([dim |-> d, conjs |-> << <<Constraint(0, c, -1)>> >>]) : c \in owned}
       \cup {at_L0([dim |-> d,
                    conjs |-> << <<Constraint(0, c, -1), Constraint(c, 0, MaxVal)>> >>]) :
                c \in owned}
       \cup {at_L0([dim |-> d, conjs |-> <<>>])}

\* components with input a and output b, with or without an initial
\* location, and up to max_edges edges between any two locations
QueryComponents(owned, d, max_edges) ==
    LET edge_choices ==
            {[source_location |-> s, target_location |-> t, sync |-> a,
              guard |-> Universe(d), updates |-> <<>>] :
                s \in LocIds, t \in LocIds, a \in ActionNames}
    IN {[declarations |-> [name \in {ClockNames[c] : c \in owned} |->
                              CHOOSE c \in owned : ClockNames[c] = name],
         invariants |-> inv,
         edges |-> edges,
         initial |-> initial,
         inputs |-> {"a"},
         outputs |-> {"b"}] :
            initial \in {None, Some("L0")},
            inv \in InitialInvariantChoices(owned, d),
            edges \in UNION {[1..n -> edge_choices] : n \in 0..max_edges}}

InitNode(node, components) ==
    /\ lhs = node
    /\ rhs = NoSystem
    /\ dim = NumClocks
    /\ quotient_clock = None
    /\ pc = "compiled"
    /\ orig = components
    /\ applied = NoApplied
    /\ graph = from_dim(0)
    /\ redundant = NoRedundancies
    /\ sim = NoSim

\* a leaf, or a composition of two leaves without edges
InitQuery ==
    \/ \E c \in QueryComponents({1}, GlobalDim, MaxEdges + 1) :
          InitNode(compile(c, GlobalDim), [lhs |-> c, rhs |-> NoSystem])
    \/ \E l \in QueryComponents(1..SplitAt, GlobalDim, 0) :
       \E r \in QueryComponents((SplitAt + 1)..NumClocks, GlobalDim, 0) :
          InitNode(Composed(compile(l, GlobalDim), compile(r, GlobalDim), GlobalDim),
                   [lhs |-> l, rhs |-> r])

GetInitialState ==
    /\ pc = "compiled"
    /\ sim' = [query |-> "get_initial_state",
               result |-> IF lhs.kind = "leaf"
                          THEN get_initial_state(lhs)
                          ELSE composed_get_initial_state(lhs)]
    /\ pc' = "answered"
    /\ UNCHANGED <<lhs, rhs, dim, quotient_clock, orig, applied, graph, redundant>>

\* next_transitions of a leaf at one of its locations on one of its actions
LeafNextTransitions ==
    /\ pc = "compiled"
    /\ lhs.kind = "leaf"
    /\ \E id \in DOMAIN lhs.locations, action \in get_actions(lhs) :
          sim' = [query |-> "next_transitions", loc |-> id, action |-> action,
                  result |-> next_transitions(lhs, lhs.locations[id], action)]
    /\ pc' = "answered"
    /\ UNCHANGED <<lhs, rhs, dim, quotient_clock, orig, applied, graph, redundant>>

SpecQuery == InitQuery /\ [][GetInitialState \/ LeafNextTransitions]_vars

LocalMaxBoundsFollowDim ==
    pc = "rewritten" =>
        LET pairs == IF lhs.kind = "leaf"
                     THEN {<<orig.lhs, lhs>>}
                     ELSE {<<orig.lhs.left, lhs.left>>, <<orig.lhs.right, lhs.right>>}
            pseudo == {LocationTree("universal", None), LocationTree("inconsistent", None)}
        IN \A p \in pairs :
              /\ \A loc \in pseudo :
                    get_local_max_bounds(p[2], loc) = [dim |-> get_dim(p[2]), bounds |-> <<>>]
              /\ \A id \in DOMAIN p[2].locations :
                    LET table == get_local_max_bounds(p[2], p[2].locations[id])
                    IN /\ table.dim = get_dim(p[2])
                       /\ applied.l_remove # <<>> =>
                             \A name \in DOMAIN p[2].declarations :
                                /\ p[2].declarations[name] \in DOMAIN table.bounds
                                /\ table.bounds[p[2].declarations[name]] =
                                       p[1].max_bounds.bounds[p[1].declarations[name]]

(***************************************************************************)
(* get_state (system/extract_state.rs)                                     *)
(***************************************************************************)
\* Vec::dedup: of consecutive equal elements only the first is kept
RECURSIVE dedup(_)
dedup(s) ==
    IF Len(s) < 2 THEN s
    ELSE IF s[1] = s[2] THEN dedup(Tail(s))
    ELSE <<s[1]>> \o dedup(Tail(s))

\* the first pair, in the order of the cartesian product, of different
\* elements of s with the same owner; owners[k] is the owner of s[k]
first_conflict(s, owners) ==
    LET pairs == Flatten([i \in DOMAIN s |-> [j \in DOMAIN s |-> <<i, j>>]])
        found == SelectSeq(pairs, LAMBDA p : s[p[1]] # s[p[2]] /\ owners[p[1]] = owners[p[2]])
    IN IF found = <<>> THEN None ELSE Some(<<s[found[1][1]], s[found[1][2]]>>)

\* the recipe is the list of its leaves' components, the location tree the
\* list of their locations; a component the state does not name is anywhere
construct_location_tree(locations, components) ==
    LET named(c) == SelectSeq(locations,
                        LAMBDA loc : loc.component = c.name /\ loc.special_id = c.special_id)
        missing == {k \in DOMAIN components :
                       /\ named(components[k]) # <<>>
                       /\ named(components[k])[1].variable \notin components[k].locations}
    IN IF missing # {}
       THEN [ok |-> FALSE, error |-> "Location does not exist in the component"]
       ELSE [ok |-> TRUE,
             val |-> [k \in DOMAIN components |->
                         IF named(components[k]) = <<>>
                         THEN "any"
                         ELSE named(components[k])[1].variable]]

\* state_query is a conjunction of locations, given as their list
get_state(state_query, components, d) ==
    LET ambiguous ==
            first_conflict(components,
                           [k \in DOMAIN components |->
                               <<components[k].name, components[k].special_id>>])
        locations == dedup(state_query)
        ambiguous_location ==
            first_conflict(locations,
                           [k \in DOMAIN locations |->
                               <<locations[k].component, locations[k].special_id>>])
        loc_tree == construct_location_tree(locations, components)
    IN IF ambiguous.some
       THEN [ok |-> FALSE, error |-> "Ambiguous component name",
             first |-> [name |-> ambiguous.val[1].name,
                        special_id |-> ambiguous.val[1].special_id],
             second |-> [name |-> ambiguous.val[2].name,
                         special_id |-> ambiguous.val[2].special_id]]
       ELSE IF ambiguous_location.some
       THEN [ok |-> FALSE, error |-> "Ambiguous location",
             first |-> ambiguous_location.val[1], second |-> ambiguous_location.val[2]]
       ELSE IF ~loc_tree.ok
       THEN loc_tree
       ELSE [ok |-> TRUE, val |-> [location |-> loc_tree.val, zone |-> Universe(d)]]

\* recipes of two leaves named A or B, with or without a special_id, with
\* one or two locations; states naming up to MaxLocations locations
MaxLocations == 3

InitGetState ==
    /\ \E components \in [1..2 -> [name : {"A", "B"}, special_id : {None, Some(1)},
                                   locations : {{"L0"}, LocIds}]] :
       \E state_query \in UNION {[1..n -> [component : {"A", "B"}, special_id : {None},
                                           variable : LocIds]] : n \in 0..MaxLocations} :
          orig = [lhs |-> components, rhs |-> state_query]
    /\ lhs = NoSystem
    /\ rhs = NoSystem
    /\ dim = NumClocks
    /\ quotient_clock = None
    /\ pc = "parsed"
    /\ applied = NoApplied
    /\ graph = from_dim(0)
    /\ redundant = NoRedundancies
    /\ sim = NoSim

GetState ==
    /\ pc = "parsed"
    /\ sim' = [query |-> "get_state", result |-> get_state(orig.rhs, orig.lhs, GlobalDim)]
    /\ pc' = "answered"
    /\ UNCHANGED <<lhs, rhs, dim, quotient_clock, orig, applied, graph, redundant>>

SpecGetState == InitGetState /\ [][GetState]_vars

\* C20: get_state returns an ambiguity error naming both conflicting
\* identifiers, and builds no state, whenever the recipe has two leaves with
\* the same component name and special_id or the state names two different
\* locations for the same component; naming the same location twice is by
\* itself no ambiguity.
AmbiguityIsReported ==
    (pc = "answered" /\ sim.query = "get_state") =>
        LET components == orig.lhs
            state_query == orig.rhs
            twice == \E i, j \in DOMAIN components :
                        /\ i # j
                        /\ components[i].name = components[j].name
                        /\ components[i].special_id = components[j].special_id
            two_locations == \E i, j \in DOMAIN state_query :
                                /\ state_query[i].component = state_query[j].component
                                /\ state_query[i].special_id = state_query[j].special_id
                                /\ state_query[i].variable # state_query[j].variable
            ambiguity == /\ ~sim.result.ok
                         /\ sim.result.error \in {"Ambiguous component name",
                                                  "Ambiguous location"}
        IN /\ twice =>
                 /\ ambiguity
                 /\ sim.result.error = "Ambiguous component name"
                 /\ sim.result.first.name = sim.result.second.name
           /\ (two_locations /\ ~twice) =>
                 /\ ambiguity
                 /\ sim.result.error = "Ambiguous location"
                 /\ sim.result.first.component = sim.result.second.component
                 /\ sim.result.first.variable # sim.result.second.variable
           /\ (~twice /\ ~two_locations) => ~ambiguity

(***************************************************************************)
(* Runs of an analysed component: every clock starts at zero, a delay      *)
(* advances all clocks by one, an enabled transition applies its updates   *)
(***************************************************************************)
Run ==
    \/ /\ pc = "analysed"
       /\ pc' = "running"
       /\ sim' = [loc |-> get_initial_location(lhs).val.id,
                  v |-> [c \in 1..(get_dim(lhs) - 1) |-> 0],
                  w |-> <<>>]
       /\ UNCHANGED <<lhs, rhs, dim, quotient_clock, orig, applied, graph, redundant>>
    \/ /\ pc = "running"
       /\ \A c \in DOMAIN sim.v : sim.v[c] < MaxVal
       /\ invariant_holds(lhs, sim.loc, delay(sim.v))
       /\ sim' = [sim EXCEPT !.v = delay(sim.v)]
       /\ UNCHANGED <<lhs, rhs, dim, quotient_clock, pc, orig, applied, graph, redundant>>
    \/ /\ pc = "running"
       /\ \E k \in DOMAIN lhs.location_edges[sim.loc] :
          \E t \in {lhs.location_edges[sim.loc][k]} :
             /\ is_enabled(lhs, t, sim.v)
             /\ sim' = [sim EXCEPT !.loc = t.target_locations.id,
                                   !.v = apply_updates(sim.v, t.updates)]
       /\ UNCHANGED <<lhs, rhs, dim, quotient_clock, pc, orig, applied, graph, redundant>>

SpecRun == InitAnalysis /\ [][FindRedundantClocks \/ Run]_vars

\* C21: in every reachable state of a system (all clocks start at 0, a delay
\* advances all clocks equally, a transition applies its updates) any two
\* clocks that find_equivalent_clock_groups puts in the same group have
\* equal values, so every guard and invariant evaluates the same with one
\* clock of a group read for another.
GroupedClocksAreEqual ==
    pc = "running" =>
        \A n \in DOMAIN redundant.groups :
        \A a, b \in redundant.groups[n] :
            /\ sim.v[a] = sim.v[b]
            /\ LET swapped == [sim.v EXCEPT ![a] = sim.v[b], ![b] = sim.v[a]]
               IN /\ invariant_holds(lhs, sim.loc, sim.v) = invariant_holds(lhs, sim.loc, swapped)
                  /\ \A t \in Range(lhs.location_edges[sim.loc]) :
                        satisfies(t.guard_zone, sim.v) = satisfies(t.guard_zone, swapped)

\* C21 witness: after a transition that reset the clocks of a group, and a
\* delay, the clocks of the group are positive and another clock is ahead.
GroupBehindAnotherClock ==
    /\ pc = "running"
    /\ redundant.groups # <<>>
    /\ \E a \in redundant.groups[1] : \E c \in DOMAIN sim.v :
          /\ c \notin redundant.groups[1]
          /\ sim.v[a] > 0
          /\ sim.v[c] > sim.v[a]

\* C22: after leaf.replace_clocks(m), m of one or more entries, every clock
\* is referenced under the index its names are declared with, in every
\* invariant and guard constraint and in every update; no constraint refers
\* to an index outside 0..get_dim()-1, and the result is the same for every
\* iteration order of the map.
ReplaceRenamesEverywhere ==
    (pc \in {"rewritten", "panicked"} /\ lhs.kind = "leaf" /\ applied.l_replace # <<>>) =>
        LET before == orig.lhs
            old_index == {before.declarations[n] : n \in DOMAIN before.declarations}
            renamed(c) ==
                IF c \in old_index
                THEN lhs.declarations[CHOOSE n \in DOMAIN before.declarations :
                                          before.declarations[n] = c]
                ELSE c
            pairs(fed) == {<<c.i, c.j>> :
                              c \in UNION {Range(fed.conjs[k]) : k \in DOMAIN fed.conjs}}
            renamed_pairs(fed) == {<<renamed(p[1]), renamed(p[2])>> : p \in pairs(fed)}
        IN /\ pc = "rewritten"
           /\ \A id \in DOMAIN before.locations :
                 before.locations[id].invariant.some =>
                     pairs(lhs.locations[id].invariant.val)
                         \subseteq renamed_pairs(before.locations[id].invariant.val)
           /\ \A id \in DOMAIN before.location_edges :
              \A k \in DOMAIN before.location_edges[id] :
                 /\ pairs(lhs.location_edges[id][k].guard_zone)
                        \subseteq renamed_pairs(before.location_edges[id][k].guard_zone)
                 /\ \A n \in DOMAIN before.location_edges[id][k].updates :
                       lhs.location_edges[id][k].updates[n].clock_index =
                           renamed(before.location_edges[id][k].updates[n].clock_index)
           /\ \A order \in Perms(DOMAIN applied.l_replace) :
                 replace_clocks(before, applied.l_replace, order) = lhs

(***************************************************************************)
(* find_edges_and_nodes, one iteration of its loop at a time               *)
(***************************************************************************)
\* the longest list of locations taken off the worklist that is recorded
MaxTaken == 6

\* the call from from_system, the iterations of the while loop and its exit;
\* sim.taken lists the locations taken off the worklist
FindEdgesAndNodes ==
    \/ /\ pc = "compiled"
       /\ graph' = from_dim(get_dim(lhs))
       /\ sim' = [worklist |-> <<get_initial_location(lhs).val>>, taken |-> <<>>]
       /\ pc' = "traversing"
       /\ UNCHANGED <<lhs, rhs, dim, quotient_clock, orig, applied, redundant>>
    \/ /\ pc = "traversing"
       /\ sim.worklist # <<>>
       /\ Len(sim.taken) < MaxTaken
       /\ \E step \in {worklist_step(lhs, sim.worklist, graph)} :
             /\ graph' = step.graph
             /\ sim' = [worklist |-> step.worklist,
                        taken |-> Append(sim.taken, Head(sim.worklist).id)]
       /\ UNCHANGED <<lhs, rhs, dim, quotient_clock, pc, orig, applied, redundant>>
    \/ /\ pc = "traversing"
       /\ sim.worklist = <<>>
       /\ pc' = "traversed"
       /\ UNCHANGED <<lhs, rhs, dim, quotient_clock, orig, applied, graph, redundant, sim>>

\* leaves with an initial location and up to MaxEdges + 1 edges between any
\* two locations: parallel edges, self-loops and cycles
SpecTraversal ==
    /\ \E c \in {q \in QueryComponents({1}, GlobalDim, MaxEdges + 1) : q.initial.some} :
          InitNode(compile(c, GlobalDim), [lhs |-> c, rhs |-> NoSystem])
    /\ [][FindEdgesAndNodes]_vars

\* the loop runs to its end without interruption
FairTraversal == SpecTraversal /\ WF_vars(FindEdgesAndNodes)

\* C23: from_system takes each reachable location off the worklist exactly
\* once, so the graph holds exactly one node per reachable location and
\* exactly one edge per transition leaving such a location, also when a
\* location is the target of several transitions.
EachLocationTakenOnce ==
    pc = "traversed" =>
        LET edges == orig.lhs.edges
            targets(S) == S \cup {edges[k].target_location :
                                     k \in {n \in DOMAIN edges : edges[n].source_location \in S}}
            reachable == targets(targets({orig.lhs.initial.val}))
        IN /\ \A id \in reachable :
                 Cardinality({k \in DOMAIN sim.taken : sim.taken[k] = id}) = 1
           /\ DOMAIN graph.nodes = reachable
           /\ Len(graph.edges) =
                 Cardinality({k \in DOMAIN edges : edges[k].source_location \in reachable})

\* C24: find_edges_and_nodes terminates for every finite system, cycles and
\* self-loops included: the worklist is eventually empty and the loop left.
TraversalTerminates == <>(pc = "traversed")

\* C24 witness: the loop has ended on a system with a self-loop and a cycle
\* through both locations, after both locations were taken off the worklist.
TraversedCycleAndSelfLoop ==
    /\ pc = "traversed"
    /\ sim.worklist = <<>>
    /\ \E k \in DOMAIN orig.lhs.edges :
          orig.lhs.edges[k].source_location = orig.lhs.edges[k].target_location
    /\ \E k, n \in DOMAIN orig.lhs.edges :
          /\ orig.lhs.edges[k].source_location = "L0"
          /\ orig.lhs.edges[k].target_location = "L1"
          /\ orig.lhs.edges[n].source_location = "L1"
          /\ orig.lhs.edges[n].target_location = "L0"
    /\ Range(sim.taken) = LocIds

(***************************************************************************)
(* remove_clock_from_federation on its own                                 *)
(***************************************************************************)
\* one call on a federation of one conjunction of up to NumClocks
\* constraints on distinct pairs of indices, on the universe or on the
\* empty federation
RemoveClockFromFederation ==
    /\ pc = "drawn"
    /\ sim' = remove_clock_from_federation(orig.fed, orig.remove_clock, orig.replacing_clock)
    /\ pc' = "removed"
    /\ UNCHANGED <<lhs, rhs, dim, quotient_clock, orig, applied, graph, redundant>>

SpecFederation ==
    /\ \E n \in 0..NumClocks :
       \E conj \in [1..n -> {Constraint(i, j, b) :
                               i \in 0..NumClocks, j \in 0..NumClocks, b \in 1..MaxVal}] :
       \E disj \in {<<>>, <<conj>>} :
       \E c \in Clocks, r \in {None} \cup {Some(x) : x \in Clocks} :
          /\ \A k \in DOMAIN conj : conj[k].i # conj[k].j
          /\ \A k, m \in DOMAIN conj :
                (conj[k].i = conj[m].i /\ conj[k].j = conj[m].j) => k = m
          /\ r # Some(c)
          /\ orig = [fed |-> from_disjunction(disj, GlobalDim),
                     remove_clock |-> c, replacing_clock |-> r]
    /\ lhs = NoSystem
    /\ rhs = NoSystem
    /\ dim = NumClocks
    /\ quotient_clock = None
    /\ pc = "drawn"
    /\ applied = NoApplied
    /\ graph = from_dim(0)
    /\ redundant = NoRedundancies
    /\ sim = NoSim
    /\ [][RemoveClockFromFederation]_vars

\* C25: for a federation of dimension d and a clock c with 1 <= c < d,
\* remove_clock_from_federation(fed, c, None) returns a federation of
\* dimension d-1 that has no constraint stemming from one that mentions c
\* and keeps every other constraint with its bound, the indices above c
\* decreased by one.
RemovedClockLeavesOthers ==
    (pc = "removed" /\ ~orig.replacing_clock.some) =>
        LET c == orig.remove_clock
            down(x) == IF x > c THEN x - 1 ELSE x
            old == UNION {Range(orig.fed.conjs[k]) : k \in DOMAIN orig.fed.conjs}
            kept == {k \in old : k.i # c /\ k.j # c}
            new == UNION {Range(sim.conjs[k]) : k \in DOMAIN sim.conjs}
        IN /\ sim.dim = orig.fed.dim - 1
           /\ new = {Constraint(down(k.i), down(k.j), k.b) : k \in kept}
           /\ \A k \in DOMAIN sim.conjs : Len(sim.conjs[k]) = Cardinality(kept)
           /\ fed_in_range(sim)

\* C25 witness: a clock was removed from a federation with a constraint on
\* it, a constraint on a clock above it and a constraint on a clock below.
RemovedMiddleClock ==
    /\ pc = "removed"
    /\ ~orig.replacing_clock.some
    /\ orig.remove_clock = 2
    /\ Len(orig.fed.conjs) = 1
    /\ \E k, m, n \in DOMAIN orig.fed.conjs[1] :
          /\ orig.fed.conjs[1][k].i = 2
          /\ orig.fed.conjs[1][m] = Constraint(3, 0, MaxVal)
          /\ orig.fed.conjs[1][n].i = 1 /\ orig.fed.conjs[1][n].j = 0
    /\ sim.conjs = << <<Constraint(1, 0, 1), Constraint(2, 0, MaxVal)>> >>

\* C26: remove_clock_from_federation(fed, c, Some(r)) with r # c returns a
\* federation of dimension d-1 in which the constraints of c are carried
\* over to r, the constraints between c and r are dropped and each pair of
\* indices holds at most one constraint; where c and r both had a bound
\* against the same clock, the kept bound is the larger of the two,
\* whatever the order of the constraints.
ReplacedClockKeepsWeakerBound ==
    (pc = "removed" /\ orig.replacing_clock.some) =>
        LET c == orig.remove_clock
            r == orig.replacing_clock.val
            down(x) == IF x > c THEN x - 1 ELSE x
            to(x) == down(IF x = c THEN r ELSE x)
            old == UNION {Range(orig.fed.conjs[k]) : k \in DOMAIN orig.fed.conjs}
            carried == {k \in old : {k.i, k.j} # {c, r}}
            bounds(i, j) == {k.b : k \in {m \in carried : to(m.i) = i /\ to(m.j) = j}}
            new == UNION {Range(sim.conjs[k]) : k \in DOMAIN sim.conjs}
        IN /\ sim.dim = orig.fed.dim - 1
           /\ \A k \in DOMAIN sim.conjs : \A m, n \in DOMAIN sim.conjs[k] :
                 (sim.conjs[k][m].i = sim.conjs[k][n].i /\ sim.conjs[k][m].j = sim.conjs[k][n].j)
                     => m = n
           /\ {<<k.i, k.j>> : k \in new} = {<<to(k.i), to(k.j)>> : k \in carried}
           /\ \A k \in new : \A b \in bounds(k.i, k.j) : b <= k.b

\* C27: Declarations.combine_clocks maps all members of each group to the
\* smallest member of the group, for every iteration order of the group set
\* and of the clock map; the other names keep their index.
GroupsDeclaredAtSmallest ==
    pc = "combined" =>
        \A n \in DOMAIN orig.lhs.clocks :
            LET mine == {k \in DOMAIN applied.l_found :
                            orig.lhs.clocks[n] \in Range(applied.l_found[k])}
            IN lhs.clocks[n] = IF mine = {} \/ \A k \in mine : Len(applied.l_found[k]) < 2
                               THEN orig.lhs.clocks[n]
                               ELSE Min(UNION {Range(applied.l_found[k]) : k \in mine})

(***************************************************************************)
(* next_transitions of a leaf with pseudo-locations                        *)
(***************************************************************************)
\* next_transitions of the leaf at one of its locations on one of its actions
PseudoNextTransitions ==
    /\ pc = "compiled"
    /\ \E id \in DOMAIN lhs.locations, action \in get_actions(lhs) :
          sim' = [loc |-> id, action |-> action,
                  result |-> next_transitions(lhs, lhs.locations[id], action)]
    /\ pc' = "answered"
    /\ UNCHANGED <<lhs, rhs, dim, quotient_clock, orig, applied, graph, redundant>>

\* leaves with input a and output b, a normal, a universal and an
\* inconsistent location and up to MaxEdges edges between any two of them
SpecPseudo ==
    /\ \E n \in 0..MaxEdges :
       \E edges \in [1..n -> [source_location : {"L0", "universal", "inconsistent"},
                              target_location : {"L0", "universal", "inconsistent"},
                              sync : ActionNames,
                              guard : {Universe(SplitAt), BoundFed(SplitAt, <<1>>, 1)},
                              updates : {<<>>, <<Update(1, 0)>>}]] :
       \E c \in {[declarations |-> [x |-> 1],
                  invariants |-> [id \in {"L0", "universal", "inconsistent"} |-> None],
                  edges |-> edges,
                  initial |-> Some("L0"),
                  inputs |-> {"a"},
                  outputs |-> {"b"}]} :
          InitNode(compile(c, SplitAt), [lhs |-> c, rhs |-> NoSystem])
    /\ [][PseudoNextTransitions]_vars

\* C28: in a leaf, next_transitions at a universal location returns exactly
\* one self-loop with an unconstrained guard and no updates for every action;
\* at an inconsistent location it returns exactly one such self-loop for
\* every input action and no transition for any output action.
PseudoLocationsLoop ==
    (pc = "answered" /\ sim.loc \in {"universal", "inconsistent"}) =>
        IF sim.loc = "universal" \/ sim.action \in lhs.inputs
        THEN /\ Len(sim.result) = 1
             /\ sim.result[1].target_locations.id = sim.loc
             /\ sim.result[1].guard_zone = Universe(get_dim(lhs))
             /\ sim.result[1].updates = <<>>
        ELSE sim.result = <<>>

\* C29: the result of find_clock_redundancies is well formed: the unused
\* list and the equivalence groups are pairwise disjoint subsets of
\* {1, ..., dim-1}; clock 0 never appears, every group has at least two
\* clocks, no clock is in two groups and none is both unused and in a group.
RedundanciesWellFormed ==
    pc = "analysed" =>
        /\ Range(redundant.unused) \subseteq 1..(graph.dim - 1)
        /\ \A k, n \in DOMAIN redundant.unused :
              redundant.unused[k] = redundant.unused[n] => k = n
        /\ \A k \in DOMAIN redundant.groups :
              /\ redundant.groups[k] \subseteq 1..(graph.dim - 1)
              /\ Cardinality(redundant.groups[k]) >= 2
              /\ redundant.groups[k] \cap Range(redundant.unused) = {}
              /\ \A n \in DOMAIN redundant.groups :
                    n # k => redundant.groups[k] \cap redundant.groups[n] = {}

\* C29 witness: the analysis found an unused clock and a group of two
\* clocks that are used in a guard or an invariant.
UnusedClockAndGroup ==
    /\ pc = "analysed"
    /\ Len(redundant.unused) = 1
    /\ Len(redundant.groups) = 1
    /\ Cardinality(redundant.groups[1]) = 2
    /\ redundant.groups[1] \cap find_used_clocks(graph) # {}

\* C30: no dimension counter underflows: for a clock_reduce call on operands
\* with get_dim() = *dim + 1 the number of clocks removed plus replaced does
\* not exceed the number of real clocks, so *dim stays >= 0 and the
\* get_dim() of every leaf stays >= 1.
NoDimensionUnderflow ==
    pc \in {"reduced", "panicked"} =>
        LET handed(remove, replace) == Len(remove) + Cardinality(DOMAIN replace)
        IN /\ handed(applied.l_remove, applied.l_replace)
                 + handed(applied.r_remove, applied.r_replace) <= get_dim(orig.lhs) - 1
           /\ dim >= 0
           /\ get_dim(lhs) >= 1
           /\ get_dim(lhs) = get_dim(orig.lhs) - handed(applied.l_remove, applied.l_replace)
           /\ rhs # NoSystem =>
                 /\ get_dim(rhs) >= 1
                 /\ get_dim(rhs) = get_dim(orig.rhs) - handed(applied.r_remove, applied.r_replace)

\* C30 witness: a call on two operands removed or replaced every real clock,
\* *dim is 0 and the left operand is left with dimension 1.
EveryClockReduced ==
    /\ pc \in {"reduced", "panicked"}
    /\ rhs # NoSystem
    /\ get_dim(orig.lhs) = GlobalDim
    /\ dim = 0
    /\ get_dim(lhs) = 1

====
